---- MODULE Spec2Model ----
(***************************************************************************)
(* State-machine model of openduck.py: the query tabs (QueryTab), the      *)
(* asynchronous query handler DuckCLI.action_run_query with its worker     *)
(* thread, the cancel button, the header sort, the connection registry     *)
(* (DuckCLI.db_connections) and the config document (openduck.json).       *)
(*                                                                         *)
(* Every coroutine started by the program (a key binding, a timer          *)
(* callback, a worker) is an asyncio task: it runs without interruption    *)
(* up to its await of asyncio.to_thread and is resumed later by the event  *)
(* loop, so a handler is one action up to its await and one action from    *)
(* the await to its end.  The worker thread of to_thread finishes on its   *)
(* own, whatever happened to the task that awaits it.                      *)
(***************************************************************************)
EXTENDS Integers, Sequences, FiniteSets, TLC

\* ------------------------------------------------------------------ bounds
MaxTabs == 2
MaxRuns == 2
MaxConns == 2
MaxConnects == 2
MaxSaved == 3
MaxRows == 3
MaxHistory == 3

\* Python's None, and the result of dict.get on a missing key.
None == "None"

\* ------------------------------------------------------------------ values
\* A cell of a result row: an integer, a string (its characters) or NULL.
IntCell(n) == [int |-> n]
StrCell(s) == [str |-> s]
NullCell == [null |-> TRUE]

IsNull(c) == DOMAIN c = {"null"}
IsInt(c) == DOMAIN c = {"int"}
IsStr(c) == DOMAIN c = {"str"}

Digit(d) == <<"0", "1", "2", "3", "4", "5", "6", "7", "8", "9">>[d + 1]

RECURSIVE NatChars(_)
NatChars(n) == IF n < 10 THEN <<Digit(n)>> ELSE NatChars(n \div 10) \o <<Digit(n % 10)>>

\* str(v) of a cell that is not None, as its characters.
StrOfCell(c) ==
    IF IsInt(c) THEN (IF c.int < 0 THEN <<"-">> \o NatChars(-c.int) ELSE NatChars(c.int))
    ELSE IF IsStr(c) THEN c.str
    ELSE <<"N", "o", "n", "e">>

\* str.lower() on one character of the alphabet the model uses.
LowerChar(ch) ==
    IF ch = "A" THEN "a" ELSE IF ch = "B" THEN "b" ELSE IF ch = "N" THEN "n" ELSE ch

Lower(s) == [k \in 1..Len(s) |-> LowerChar(s[k])]

\* Python's `f in s` on strings.
Contains(s, f) == \E k \in 0..(Len(s) - Len(f)) : SubSeq(s, k + 1, k + Len(f)) = f

\* sql.strip() on the SQL texts of the model.
SqlTexts == {"", " ", "q1", " q2 "}
Strip(s) == IF s = " " THEN "" ELSE IF s = " q2 " THEN "q2" ELSE s

\* ------------------------------------------------------------- projection
\* A column state as action_run_query creates it.
FreshState == [filter |-> <<>>, sort |-> None]
FreshStates(cols) == [i \in 0..(Len(cols) - 1) |-> FreshState]

\* Code points of the characters the model uses, for Python's str ordering.
CharCode(ch) ==
    IF ch = "-" THEN 45
    ELSE IF ch \in {"0", "1", "2", "3", "4", "5", "6", "7", "8", "9"}
         THEN 48 + (CHOOSE d \in 0..9 : Digit(d) = ch)
    ELSE IF ch = "A" THEN 65 ELSE IF ch = "B" THEN 66 ELSE IF ch = "N" THEN 78
    ELSE IF ch = "a" THEN 97 ELSE IF ch = "b" THEN 98 ELSE 110

RECURSIVE StrLess(_, _)
StrLess(s, t) ==
    IF t = <<>> THEN FALSE
    ELSE IF s = <<>> THEN TRUE
    ELSE IF CharCode(Head(s)) # CharCode(Head(t)) THEN CharCode(Head(s)) < CharCode(Head(t))
    ELSE StrLess(Tail(s), Tail(t))

\* The sort key of refresh_tab_table: x[i] if x[i] is not None else "".
SortKey(row, i) == IF IsNull(row[i + 1]) THEN StrCell(<<>>) ELSE row[i + 1]

\* Python's < on two keys of the same type.
KeyLess(a, b) == IF IsInt(a) THEN a.int < b.int ELSE StrLess(a.str, b.str)

\* list.sort raises TypeError when it has to compare an int with a str.
SortRaises(data, i) ==
    \E m, n \in 1..Len(data) : IsInt(SortKey(data[m], i)) # IsInt(SortKey(data[n], i))

\* Insert row x into the sorted list `done`, after every row that must stay
\* before it: list.sort is stable, also with reverse=True.
RECURSIVE InsertRow(_, _, _, _)
InsertRow(done, x, i, desc) ==
    IF done = <<>> THEN <<x>>
    ELSE LET last == done[Len(done)]
             stays == IF desc THEN ~KeyLess(SortKey(last, i), SortKey(x, i))
                              ELSE ~KeyLess(SortKey(x, i), SortKey(last, i))
         IN  IF stays THEN Append(done, x)
             ELSE Append(InsertRow(SubSeq(done, 1, Len(done) - 1), x, i, desc), last)

RECURSIVE SortRows(_, _, _)
SortRows(data, i, desc) ==
    IF data = <<>> THEN <<>>
    ELSE InsertRow(SortRows(SubSeq(data, 1, Len(data) - 1), i, desc), data[Len(data)], i, desc)

\* Mutant of FilterColumn: the two lower() calls are gone.
FilterColumnCaseSensitive(data, i, filter) ==
    SelectSeq(data, LAMBDA r : Contains(StrOfCell(r[i + 1]), filter))

\* One round of the filter loop: [r for r in data if f in str(r[i]).lower()]
\* with f = s["filter"].lower(); str(None) is "None".
FilterColumn(data, i, filter) ==
    SelectSeq(data, LAMBDA r : Contains(Lower(StrOfCell(r[i + 1])), Lower(filter)))

\* The filter loop from column i on, in the key order of col_states.
RECURSIVE FilterFrom(_, _, _)
FilterFrom(data, col_states, i) ==
    IF i \notin DOMAIN col_states THEN data
    ELSE FilterFrom(IF col_states[i].filter # <<>>
                    THEN FilterColumn(data, i, col_states[i].filter)
                    ELSE data,
                    col_states, i + 1)

\* The filter loop of refresh_tab_table.
FilterRows(data, col_states) == FilterFrom(data, col_states, 0)

\* The first column, in key order, whose sort is set; -1 when there is none.
SortColumn(col_states) ==
    IF \E i \in DOMAIN col_states : col_states[i].sort # None
    THEN CHOOSE i \in DOMAIN col_states :
            /\ col_states[i].sort # None
            /\ \A j \in DOMAIN col_states : col_states[j].sort # None => i <= j
    ELSE -1

ProjectRows(full_data, col_states) ==
    LET data == FilterRows(full_data, col_states)
        i == SortColumn(col_states)
    IN  IF i = -1 THEN data ELSE SortRows(data, i, col_states[i].sort = "desc")

\* The header label of column i (" ^", " v" and " ?" stand for the arrows and
\* the magnifier of the source).
ColumnLabel(name, s) ==
    name \o (IF s.sort = "asc" THEN " ^" ELSE IF s.sort = "desc" THEN " v" ELSE "")
         \o (IF s.filter # <<>> THEN " ?" ELSE "")

\* str(v) if v is not None else "NULL"
DisplayCell(c) == IF IsNull(c) THEN <<"N", "U", "L", "L">> ELSE StrOfCell(c)

\* The DataTable after refresh_tab_table; the key of column i is str(i).
RefreshTable(full_data, column_names, col_states) ==
    LET data == ProjectRows(full_data, col_states)
    IN  [columns |-> [k \in 1..Len(column_names) |->
                        [label |-> ColumnLabel(column_names[k], col_states[k - 1]),
                         key |-> NatChars(k - 1)]],
         rows |-> [m \in 1..Len(data) |-> [k \in 1..Len(data[m]) |-> DisplayCell(data[m][k])]]]

\* The DataTable of the `except Exception` branch: one column added without
\* a key (<<>> stands for the key the DataTable then makes up), one row.
ErrorTable ==
    [columns |-> <<[label |-> "Error", key |-> <<>>]>>,
     rows |-> <<<<<<"e", "r", "r">>>>>>]

EmptyTable == [columns |-> <<>>, rows |-> <<>>]

\* int(event.column_key.value) for a key made by str(i), i < 10.
KeyIndex(key) == CHOOSE d \in 0..9 : NatChars(d) = key

\* ------------------------------------------------------------ the backend
\* What a backend call can come back with: an exception, a statement without
\* a result set (cursor.description is None), or columns and rows.
Replies ==
    { [kind |-> "error", cols |-> <<>>, rows |-> <<>>],
      [kind |-> "norows", cols |-> <<>>, rows |-> <<>>],
      [kind |-> "rows", cols |-> <<"id">>,
       rows |-> << <<IntCell(2)>>, <<IntCell(1)>> >>],
      [kind |-> "rows", cols |-> <<"id", "total">>,
       rows |-> << <<IntCell(1), IntCell(95)>>, <<IntCell(2), IntCell(30)>> >>] }

\* The backend execute() talks to: the pymssql connection of the handle the
\* handler looked up, else the embedded engine.
Backend(conn_meta) ==
    IF conn_meta # None /\ conn_meta = "mssql" THEN "mssql" ELSE "duckdb"

\* What execute() returns for a reply that is not an exception: (data, cols).
ExecuteResult(reply) ==
    IF reply.kind = "norows"
    THEN [data |-> <<>>, cols |-> <<"Info">>]
    ELSE [data |-> reply.rows, cols |-> reply.cols]

\* ------------------------------------------------------------------ state
VARIABLES
    tabs,            \* the QueryTab of every pane, in the order of creation
    active,          \* tabs.active: the index of the active pane, 0 for none
    tasks,           \* the action_run_query tasks started so far
    timers,          \* the set_timer(0.1, action_run_query) callbacks pending
    db_connections,  \* DuckCLI.db_connections: descriptor id -> handle type
    config_file,     \* the document in openduck.json
    config,          \* DuckCLI.config, the copy the application holds
    db_tree,         \* the connection and error nodes of the DatabaseTree
    connects,        \* the connect_database workers started so far
    attached,        \* the ids whose alias is attached to self.con
    disk             \* what is at the path of openduck.json: "ok" is a complete
                     \* document (config_file), else "missing", "empty" (opened
                     \* for writing, nothing written), "partial" (part of a
                     \* document written) or "corrupt" (not a JSON document)

vars == <<tabs, active, tasks, timers, db_connections, config_file, config,
          db_tree, connects, attached, disk>>

TabIds == 1..Len(tabs)
TaskIds == 1..Len(tasks)
ConnIds == 1..MaxConns
ConnTypes == {"mysql", "mssql"}

\* QueryTab.__init__ and the widgets compose() gives it.  A connection_id of
\* None is 0, and so is a running_task of None (ids start at 1).
NewTab(sql, connection_id) ==
    [sql |-> sql, connection_id |-> connection_id,
     full_data |-> <<>>, column_names |-> <<>>, col_states |-> <<>>,
     running_task |-> 0,
     tbl |-> EmptyTable, loading |-> FALSE, meta |-> "Ready"]

DefaultConfig == [history |-> <<>>, saved_queries |-> <<>>, connections |-> <<>>]

\* DuckCLI.__init__ on a directory without openduck.json, then on_mount:
\* load_config writes the default document, no connection is saved, and the
\* "Main" tab is opened with an empty editor.
Init ==
    /\ tabs = <<NewTab("", 0)>>
    /\ active = 1
    /\ tasks = <<>>
    /\ timers = 0
    /\ db_connections = <<>>
    /\ config_file = DefaultConfig
    /\ config = DefaultConfig
    /\ db_tree = [nodes |-> <<>>, connections_data |-> <<>>]
    /\ connects = <<>>
    /\ attached = {}
    /\ disk = "ok"

\* ------------------------------------------------------------ ConfigStore
\* load_config on an existing document.
LoadConfig(file) == file

\* Mutant of LoadRaises: json.load takes whatever the file holds.
LoadRaisesNever(state) == FALSE

\* Whether load_config raises: json.load on a file that holds no complete
\* JSON document.
LoadRaises(state) == state \in {"empty", "partial", "corrupt"}

\* Mutant of Found: no default document is made, the lists the file held
\* before it went are returned.
FoundKeepsOld(state, file) == file

\* The document a load_config that does not raise leaves on disk and
\* returns: the one it found, or the default one it has written through
\* save_config because there was no file.
Found(state, file) == IF state = "missing" THEN DefaultConfig ELSE file

\* datetime.now(), read in ticks of a clock that ticks whenever a run is
\* started: the readings never go back, also from one process to the next.
Now == Len(config_file.history)

\* Mutant of AddToHistory: the new entry goes to the front of the list.
AddToHistoryNewestFirst(file, sql) ==
    [LoadConfig(file) EXCEPT !.history = <<[sql |-> Strip(sql), timestamp |-> Now]>> \o @]

\* Mutant of AddToHistory: the entry is appended to an empty history, as a
\* save of a document loaded before the earlier runs would leave it.
AddToHistoryOverwrites(file, sql) ==
    [LoadConfig(file) EXCEPT !.history = <<[sql |-> Strip(sql), timestamp |-> Now]>>]

\* add_to_history: load, append the stripped text, save.
AddToHistory(file, sql) ==
    [LoadConfig(file) EXCEPT !.history = Append(@, [sql |-> Strip(sql), timestamp |-> Now])]

\* Mutant of SaveQuery: the loop that looks for the name is gone.
SaveQueryAppends(file, name, sql) ==
    [LoadConfig(file) EXCEPT !.saved_queries =
        Append(@, [name |-> name, sql |-> Strip(sql), timestamp |-> Now])]

\* save_query: replace the first entry of that name, else append.
SaveQuery(file, name, sql) ==
    LET cfg == LoadConfig(file)
        hits == {k \in 1..Len(cfg.saved_queries) : cfg.saved_queries[k].name = name}
        entry == [name |-> name, sql |-> Strip(sql), timestamp |-> Now]
    IN  IF hits # {}
        THEN [cfg EXCEPT !.saved_queries[CHOOSE k \in hits : \A m \in hits : k <= m] = entry]
        ELSE [cfg EXCEPT !.saved_queries = Append(@, entry)]

\* Mutant of SaveConnection: the loop that looks for the id is gone.
SaveConnectionAppends(file, conn_info) ==
    [LoadConfig(file) EXCEPT !.connections = Append(@, conn_info)]

\* save_connection: replace the descriptor with the same id, else append.
SaveConnection(file, conn_info) ==
    LET cfg == LoadConfig(file)
        hits == {k \in 1..Len(cfg.connections) : cfg.connections[k].id = conn_info.id}
    IN  IF hits # {}
        THEN [cfg EXCEPT !.connections[CHOOSE k \in hits : \A m \in hits : k <= m] = conn_info]
        ELSE [cfg EXCEPT !.connections = Append(@, conn_info)]

\* Mutant of DeleteConnection: the document is written back as it was read.
DeleteConnectionKeeps(file, conn_id) == LoadConfig(file)

\* Mutant of DeleteConnection: every descriptor goes.
DeleteConnectionDropsAll(file, conn_id) == [LoadConfig(file) EXCEPT !.connections = <<>>]

\* delete_connection: keep the descriptors with another id.
DeleteConnection(file, conn_id) ==
    [LoadConfig(file) EXCEPT !.connections = SelectSeq(@, LAMBDA c : c.id # conn_id)]

\* --------------------------------------------------------- query sessions
\* self.db_connections.get(conn_id) if conn_id else None
ConnMeta(conn_id) ==
    IF conn_id # 0 /\ conn_id \in DOMAIN db_connections THEN db_connections[conn_id] ELSE None

\* The task action_run_query runs in, suspended at its await of to_thread
\* with the worker thread started.
NewTask(tab, sql, conn_meta) ==
    [tab |-> tab, sql |-> sql, conn_meta |-> conn_meta, backend |-> Backend(conn_meta),
     pc |-> "awaiting", thread |-> "running", result |-> [data |-> <<>>, cols |-> <<>>],
     must_cancel |-> FALSE, outcome |-> "none", replaced |-> <<>>]

\* Mutant of RunReturnsEarly: the text is tested before it is stripped.
RunReturnsEarlyUnstripped == active = 0 \/ tabs[active].sql = ""

\* Whether action_run_query returns at one of its two early returns.
RunReturnsEarly == active = 0 \/ Strip(tabs[active].sql) = ""

\* action_run_query from its start to its await: the history append, the
\* executing mark, the task reference, the handle lookup, the thread start.
RunQueryToAwait ==
    IF RunReturnsEarly \/ LoadRaises(disk)
    THEN UNCHANGED <<tabs, tasks, config_file, config, disk>>
    ELSE LET sql == Strip(tabs[active].sql)
             id == Len(tasks) + 1
         IN  /\ Len(tasks) < MaxRuns
             /\ config_file' = AddToHistory(Found(disk, config_file), sql)
             /\ disk' = "ok"
             /\ config' = LoadConfig(config_file')
             /\ tabs' = [tabs EXCEPT ![active].loading = TRUE,
                                     ![active].meta = "Executing...",
                                     ![active].running_task = id]
             /\ tasks' = Append(tasks, NewTask(active, sql, ConnMeta(tabs[active].connection_id)))

\* The "run_query" key binding.
ActionRunQuery ==
    /\ RunQueryToAwait
    /\ UNCHANGED <<active, timers, db_connections, db_tree, connects, attached>>

\* A timer set by add_new_tab(run=True) fires.
TimerFires ==
    /\ timers > 0
    /\ timers' = timers - 1
    /\ RunQueryToAwait
    /\ UNCHANGED <<active, db_connections, db_tree, connects, attached>>

\* The worker thread of task a comes back from execute(): it returns
\* (data, cols) or raises, whether or not the task still waits for it.
ThreadFinishes(a, reply) ==
    /\ tasks[a].thread = "running"
    /\ tasks' = [tasks EXCEPT ![a].thread = IF reply.kind = "error" THEN "raised" ELSE "returned",
                              ![a].result = IF reply.kind = "error" THEN @ ELSE ExecuteResult(reply)]
    /\ UNCHANGED <<tabs, active, timers, db_connections, config_file, config, db_tree, connects, attached, disk>>

\* Mutant of Outcome: a thread that has returned wins over the cancellation.
OutcomeResultWins(task) ==
    IF task.thread = "returned" THEN "success"
    ELSE IF task.must_cancel THEN "cancelled"
    ELSE "error"

\* How the await of to_thread ends for a task the event loop resumes: a task
\* that was cancelled gets CancelledError, whatever its thread did.
Outcome(task) ==
    IF task.must_cancel THEN "cancelled"
    ELSE IF task.thread = "returned" THEN "success"
    ELSE "error"

\* Mutant of TabAfterAwait: the cancelled branch clears the cache.
TabAfterAwaitCancelClears(tab, task) ==
    IF Outcome(task) = "success"
    THEN [tab EXCEPT !.column_names = task.result.cols,
                     !.full_data = task.result.data,
                     !.col_states = FreshStates(task.result.cols),
                     !.tbl = RefreshTable(task.result.data, task.result.cols,
                                          FreshStates(task.result.cols)),
                     !.meta = "Rows"]
    ELSE IF Outcome(task) = "cancelled"
    THEN [tab EXCEPT !.column_names = <<>>, !.full_data = <<>>, !.col_states = <<>>,
                     !.meta = "Query cancelled"]
    ELSE [tab EXCEPT !.tbl = ErrorTable, !.meta = "Error occurred"]

\* Mutant of TabAfterAwait: the success branch leaves col_states as it was.
TabAfterAwaitKeepsStates(tab, task) ==
    IF Outcome(task) = "success"
    THEN [tab EXCEPT !.column_names = task.result.cols,
                     !.full_data = task.result.data,
                     !.tbl = RefreshTable(task.result.data, task.result.cols,
                                          FreshStates(task.result.cols)),
                     !.meta = "Rows"]
    ELSE IF Outcome(task) = "cancelled"
    THEN [tab EXCEPT !.meta = "Query cancelled"]
    ELSE [tab EXCEPT !.tbl = ErrorTable, !.meta = "Error occurred"]

\* Mutant of TabAfterAwait: a column that existed before keeps its state.
TabAfterAwaitCarriesStates(tab, task) ==
    IF Outcome(task) = "success"
    THEN [tab EXCEPT !.column_names = task.result.cols,
                     !.full_data = task.result.data,
                     !.col_states = [i \in 0..(Len(task.result.cols) - 1) |->
                                        IF i \in DOMAIN tab.col_states
                                        THEN tab.col_states[i] ELSE FreshState],
                     !.tbl = RefreshTable(task.result.data, task.result.cols,
                                          FreshStates(task.result.cols)),
                     !.meta = "Rows"]
    ELSE IF Outcome(task) = "cancelled"
    THEN [tab EXCEPT !.meta = "Query cancelled"]
    ELSE [tab EXCEPT !.tbl = ErrorTable, !.meta = "Error occurred"]

\* The tab after the try block of action_run_query without its finally.
TabAfterAwait(tab, task) ==
    IF Outcome(task) = "success"
    THEN [tab EXCEPT !.column_names = task.result.cols,
                     !.full_data = task.result.data,
                     !.col_states = FreshStates(task.result.cols),
                     !.tbl = RefreshTable(task.result.data, task.result.cols,
                                          FreshStates(task.result.cols)),
                     !.meta = "Rows"]
    ELSE IF Outcome(task) = "cancelled"
    THEN [tab EXCEPT !.meta = "Query cancelled"]
    ELSE [tab EXCEPT !.tbl = ErrorTable, !.meta = "Error occurred"]

\* Mutant of TabAfterFinally: the handler has no finally block.
TabAfterFinallySkipped(tab) == tab

\* The finally block of action_run_query.
TabAfterFinally(tab) == [tab EXCEPT !.loading = FALSE, !.running_task = 0]

\* Mutant of RunQueryResumes: the handler looks up the active tab again
\* after the await and writes there.
RunQueryResumesOnActive(a) ==
    /\ tasks[a].pc = "awaiting"
    /\ tasks[a].must_cancel \/ tasks[a].thread # "running"
    /\ active # 0
    /\ tabs' = [tabs EXCEPT ![active] = TabAfterFinally(TabAfterAwait(@, tasks[a]))]
    /\ tasks' = [tasks EXCEPT ![a].pc = "done",
                              ![a].outcome = Outcome(tasks[a]),
                              ![a].replaced = tabs[tasks[a].tab].col_states]
    /\ UNCHANGED <<active, timers, db_connections, config_file, config, db_tree, connects, attached, disk>>

\* The event loop resumes task a: from the await to the end of the handler.
\* `replaced` records the column states the run found, for the properties.
RunQueryResumes(a) ==
    /\ tasks[a].pc = "awaiting"
    /\ tasks[a].must_cancel \/ tasks[a].thread # "running"
    /\ tabs' = [tabs EXCEPT ![tasks[a].tab] = TabAfterFinally(TabAfterAwait(@, tasks[a]))]
    /\ tasks' = [tasks EXCEPT ![a].pc = "done",
                              ![a].outcome = Outcome(tasks[a]),
                              ![a].replaced = tabs[tasks[a].tab].col_states]
    /\ UNCHANGED <<active, timers, db_connections, config_file, config, db_tree, connects, attached, disk>>

\* on_button_pressed, "cancel-query".
CancelPressed ==
    /\ active # 0
    /\ tabs[active].running_task # 0
    /\ tasks[tabs[active].running_task].pc # "done"
    /\ tasks' = [tasks EXCEPT ![tabs[active].running_task].must_cancel = TRUE]
    /\ tabs' = [tabs EXCEPT ![active].meta = "Query cancelled", ![active].loading = FALSE]
    /\ UNCHANGED <<active, timers, db_connections, config_file, config, db_tree, connects, attached, disk>>

\* The sort a header click moves a column to: None -> asc -> desc -> None.
NextSort(current_sort) ==
    IF current_sort = None THEN "asc" ELSE IF current_sort = "asc" THEN "desc" ELSE None

\* Mutant of StatesAfterHeader: the loop that clears the other sorts is gone.
StatesAfterHeaderKeepsOthers(col_states, idx) ==
    [col_states EXCEPT ![idx].sort = NextSort(col_states[idx].sort)]

\* The column states after the header of column idx was selected.
StatesAfterHeader(col_states, idx) ==
    [i \in DOMAIN col_states |->
        [col_states[i] EXCEPT !.sort = IF i = idx THEN NextSort(col_states[idx].sort) ELSE None]]

\* on_data_table_header_selected for a header of the active tab's table whose
\* key is str(i); the table is refreshed unless the sort raises.
HeaderSelected(k) ==
    /\ active # 0
    /\ k \in 1..Len(tabs[active].tbl.columns)
    /\ tabs[active].tbl.columns[k].key # <<>>
    /\ LET tab == tabs[active]
           idx == KeyIndex(tab.tbl.columns[k].key)
           states == StatesAfterHeader(tab.col_states, idx)
           raises == SortColumn(states) # -1
                        /\ SortRaises(FilterRows(tab.full_data, states), SortColumn(states))
       IN  /\ idx \in DOMAIN tab.col_states
           /\ tabs' = [tabs EXCEPT ![active].col_states = states,
                                   ![active].tbl = IF raises THEN @
                                                   ELSE RefreshTable(tab.full_data, tab.column_names, states)]
    /\ UNCHANGED <<active, tasks, timers, db_connections, config_file, config, db_tree, connects, attached, disk>>

\* Mutant of TabAfterRefresh: the rows are not copied, the cache itself is
\* filtered and sorted.
TabAfterRefreshInPlace(tab) ==
    LET i == SortColumn(tab.col_states)
    IN  IF i # -1 /\ SortRaises(FilterRows(tab.full_data, tab.col_states), i)
        THEN tab
        ELSE [tab EXCEPT !.full_data = ProjectRows(tab.full_data, tab.col_states),
                         !.tbl = RefreshTable(tab.full_data, tab.column_names, tab.col_states)]

\* refresh_tab_table(tab): the rows are copied, filtered and sorted, then the
\* table is cleared and filled; a sort that raises leaves before the clear.
TabAfterRefresh(tab) ==
    LET i == SortColumn(tab.col_states)
    IN  IF i # -1 /\ SortRaises(FilterRows(tab.full_data, tab.col_states), i)
        THEN tab
        ELSE [tab EXCEPT !.tbl = RefreshTable(tab.full_data, tab.column_names, tab.col_states)]

\* refresh_tab_table is called on the active tab.
RefreshTabTable ==
    /\ active # 0
    /\ tabs' = [tabs EXCEPT ![active] = TabAfterRefresh(@)]
    /\ UNCHANGED <<active, tasks, timers, db_connections, config_file, config, db_tree, connects, attached, disk>>

\* add_new_tab: a new pane, made the active one, and the timer of run=True.
AddNewTab(sql, run, connection_id) ==
    /\ Len(tabs) < MaxTabs
    /\ tabs' = Append(tabs, NewTab(sql, connection_id))
    /\ active' = Len(tabs) + 1
    /\ timers' = IF run THEN timers + 1 ELSE timers

\* on_directory_tree_file_selected on a data file.
FileSelected ==
    /\ AddNewTab("q1", TRUE, 0)
    /\ UNCHANGED <<tasks, db_connections, config_file, config, db_tree, connects, attached, disk>>

\* The user activates another pane.
TabActivated(t) ==
    /\ t \in TabIds /\ t # active
    /\ active' = t
    /\ UNCHANGED <<tabs, tasks, timers, db_connections, config_file, config, db_tree, connects, attached, disk>>

\* The user edits the SQL of the active pane, or loads a history or saved
\* query into it (load_query_in_current_tab).
SqlEdited(sql) ==
    /\ active # 0
    /\ tabs[active].sql # sql
    /\ tabs' = [tabs EXCEPT ![active].sql = sql]
    /\ UNCHANGED <<active, tasks, timers, db_connections, config_file, config, db_tree, connects, attached, disk>>

\* The names typed into the SaveQueryDialog.
QueryNames == {"a", "b"}

\* action_save_query and the "save" button of its SaveQueryDialog with a
\* name that is not blank: save_query, then handle_result reloads the config.
QuerySaved(name) ==
    /\ active # 0
    /\ Strip(tabs[active].sql) # ""
    /\ Len(config_file.saved_queries) < MaxSaved
    /\ ~LoadRaises(disk)
    /\ config_file' = SaveQuery(Found(disk, config_file), name, Strip(tabs[active].sql))
    /\ disk' = "ok"
    /\ config' = LoadConfig(config_file')
    /\ UNCHANGED <<tabs, active, tasks, timers, db_connections, db_tree, connects, attached>>

\* ---------------------------------------------------- connection registry
\* DatabaseTree.remove_connection_node: the first node of the id goes (the
\* loop breaks there), and the id leaves connections_data.
RECURSIVE WithoutFirst(_, _)
WithoutFirst(nodes, conn_id) ==
    IF nodes = <<>> THEN <<>>
    ELSE IF Head(nodes).conn_id = conn_id THEN Tail(nodes)
    ELSE <<Head(nodes)>> \o WithoutFirst(Tail(nodes), conn_id)

RemoveConnectionNode(tree, conn_id) ==
    [nodes |-> WithoutFirst(tree.nodes, conn_id),
     connections_data |-> [c \in DOMAIN tree.connections_data \ {conn_id} |->
                              tree.connections_data[c]]]

\* DatabaseTree.add_connection_node: table leaves when `tables` is a
\* non-empty list, else the "Loading..." leaf.
AddConnectionNode(tree, conn_info, has_tables) ==
    LET t == RemoveConnectionNode(tree, conn_info.id)
    IN  [nodes |-> Append(t.nodes, [kind |-> "connection", conn_id |-> conn_info.id,
                                    tables |-> has_tables]),
         connections_data |-> [c \in DOMAIN t.connections_data \cup {conn_info.id} |->
                                  IF c = conn_info.id THEN conn_info ELSE t.connections_data[c]]]

\* DatabaseTree.update_tables
UpdateTables(tree, conn_id, has_tables) ==
    IF conn_id \in DOMAIN tree.connections_data
    THEN AddConnectionNode(tree, tree.connections_data[conn_id], has_tables)
    ELSE tree

\* The except branch of connect_database on the tree.
AddErrorNode(tree, conn_id) ==
    LET t == RemoveConnectionNode(tree, conn_id)
    IN  [t EXCEPT !.nodes = Append(@, [kind |-> "error", conn_id |-> conn_id, tables |-> FALSE])]

\* dict.pop(conn_id, None)
Popped(handles, conn_id) == [c \in DOMAIN handles \ {conn_id} |-> handles[c]]

\* The ids a worker of this process or a persisted descriptor carries.
UsedConnIds ==
    {connects[k].conn_info.id : k \in 1..Len(connects)}
        \cup {config_file.connections[k].id : k \in 1..Len(config_file.connections)}

\* The id the AddConnectionDialog makes, conn_<milliseconds>: an id that
\* nothing carries yet (the least one stands for it).
FreshConnId ==
    CHOOSE i \in 1..(Cardinality(UsedConnIds) + 1) :
        i \notin UsedConnIds /\ \A j \in 1..(i - 1) : j \in UsedConnIds

\* The worker connect_database runs in, suspended at the await of to_thread
\* in _connect_mysql or _connect_mssql; `origin` is the run_worker call that
\* started it.
NewConnect(conn_info, origin) ==
    [conn_info |-> conn_info, pc |-> "awaiting", thread |-> "running",
     has_tables |-> FALSE, origin |-> origin]

\* run_worker(connect_database(conn_info)) up to the await of to_thread in
\* _connect_mysql or _connect_mssql: the node with its "Loading..." leaf.
ConnectToAwait(conn_info, origin) ==
    /\ Len(connects) < MaxConnects
    /\ db_tree' = AddConnectionNode(db_tree, conn_info, FALSE)
    /\ connects' = Append(connects, NewConnect(conn_info, origin))

\* handle_new_conn: the dialog came back with a new descriptor.
ConnectionAdded(type) ==
    LET conn_info == [id |-> FreshConnId, type |-> type]
    IN  /\ conn_info.id \in ConnIds
        /\ ~LoadRaises(disk)
        /\ config_file' = SaveConnection(Found(disk, config_file), conn_info)
        /\ disk' = "ok"
        /\ config' = LoadConfig(config_file')
        /\ ConnectToAwait(conn_info, "dialog")
        /\ UNCHANGED <<tabs, active, tasks, timers, db_connections, attached>>

\* handle_retry: an error node was selected, its descriptor is in
\* self.config, and the dialog came back with the descriptor edited.
ConnectionRetried(conn_id, type) ==
    /\ \E k \in 1..Len(db_tree.nodes) :
            db_tree.nodes[k].kind = "error" /\ db_tree.nodes[k].conn_id = conn_id
    /\ \E k \in 1..Len(config.connections) : config.connections[k].id = conn_id
    /\ ~LoadRaises(disk)
    /\ config_file' = SaveConnection(Found(disk, config_file), [id |-> conn_id, type |-> type])
    /\ disk' = "ok"
    /\ config' = LoadConfig(config_file')
    /\ ConnectToAwait([id |-> conn_id, type |-> type], "retry")
    /\ UNCHANGED <<tabs, active, tasks, timers, db_connections, attached>>

\* How far the worker thread of do_attach or do_connect gets: it raises at
\* the extension load (the import, for pymssql), at the attach (the connect),
\* at the catalog query, or it returns the table list.
ConnectOutcomes == {"load", "attach", "catalog", "ok"}

\* The aliases self.con holds after do_attach for alias conn_id: the DETACH
\* before the ATTACH drops an alias of that name, the ATTACH adds it, and
\* nothing drops it when the catalog query raises.
AttachedAfterAttach(aliases, conn_id, outcome) ==
    IF outcome = "load" THEN aliases
    ELSE IF outcome = "attach" THEN aliases \ {conn_id}
    ELSE aliases \cup {conn_id}

\* The worker thread of do_attach or do_connect comes back: with the table
\* list (empty or not), or with an exception.
ConnectThreadFinishes(k, outcome, has_tables) ==
    /\ connects[k].thread = "running"
    /\ connects' = [connects EXCEPT ![k].thread = IF outcome = "ok" THEN "returned" ELSE "raised",
                                    ![k].has_tables = outcome = "ok" /\ has_tables]
    /\ attached' = IF connects[k].conn_info.type = "mysql"
                   THEN AttachedAfterAttach(attached, connects[k].conn_info.id, outcome)
                   ELSE attached
    /\ UNCHANGED <<tabs, active, tasks, timers, db_connections, config_file, config, db_tree, disk>>

\* Mutant of ConnectResumes: the except branch deletes the descriptor.
ConnectResumesForgets(k) ==
    LET c == connects[k]
        conn_id == c.conn_info.id
    IN  /\ c.pc = "awaiting"
        /\ c.thread # "running"
        /\ connects' = [connects EXCEPT ![k].pc = "done"]
        /\ IF c.thread = "returned"
           THEN /\ db_connections' = [x \in DOMAIN db_connections \cup {conn_id} |->
                                        IF x = conn_id THEN c.conn_info.type ELSE db_connections[x]]
                /\ db_tree' = UpdateTables(db_tree, conn_id, c.has_tables)
                /\ UNCHANGED <<config_file, config, disk>>
           ELSE /\ db_connections' = Popped(db_connections, conn_id)
                /\ db_tree' = AddErrorNode(db_tree, conn_id)
                /\ config_file' = DeleteConnection(config_file, conn_id)
                /\ config' = LoadConfig(config_file')
        /\ UNCHANGED <<tabs, active, tasks, timers, attached, disk>>

\* Mutant of ConnectResumes: the except branch drops every handle.
ConnectResumesAborts(k) ==
    LET c == connects[k]
        conn_id == c.conn_info.id
    IN  /\ c.pc = "awaiting"
        /\ c.thread # "running"
        /\ connects' = [connects EXCEPT ![k].pc = "done"]
        /\ IF c.thread = "returned"
           THEN /\ db_connections' = [x \in DOMAIN db_connections \cup {conn_id} |->
                                        IF x = conn_id THEN c.conn_info.type ELSE db_connections[x]]
                /\ db_tree' = UpdateTables(db_tree, conn_id, c.has_tables)
           ELSE /\ db_connections' = <<>>
                /\ db_tree' = AddErrorNode(db_tree, conn_id)
        /\ UNCHANGED <<tabs, active, tasks, timers, config_file, config, attached, disk>>

\* connect_database from the await to its end: the handle and the table
\* leaves, or the except branch.
ConnectResumes(k) ==
    LET c == connects[k]
        conn_id == c.conn_info.id
    IN  /\ c.pc = "awaiting"
        /\ c.thread # "running"
        /\ connects' = [connects EXCEPT ![k].pc = "done"]
        /\ IF c.thread = "returned"
           THEN /\ db_connections' = [x \in DOMAIN db_connections \cup {conn_id} |->
                                        IF x = conn_id THEN c.conn_info.type ELSE db_connections[x]]
                /\ db_tree' = UpdateTables(db_tree, conn_id, c.has_tables)
           ELSE /\ db_connections' = Popped(db_connections, conn_id)
                /\ db_tree' = AddErrorNode(db_tree, conn_id)
        /\ UNCHANGED <<tabs, active, tasks, timers, config_file, config, attached, disk>>

\* The aliases self.con holds after the best-effort DETACH of _disconnect,
\* which runs for a mysql handle only and may raise.
AttachedAfterDisconnect(aliases, conn_meta, conn_id, detach_ok) ==
    IF conn_meta = "mysql" /\ detach_ok THEN aliases \ {conn_id} ELSE aliases

\* Mutant of FileAfterDisconnect: a detach or close that raises ends
\* _disconnect before its delete_connection.
FileAfterDisconnectRaises(file, conn_id, detach_ok) ==
    IF detach_ok THEN DeleteConnection(file, conn_id) ELSE LoadConfig(file)

\* The document after _disconnect: the detach or close that raised was
\* swallowed, and delete_connection runs whatever it did.
FileAfterDisconnect(file, conn_id, detach_ok) == DeleteConnection(file, conn_id)

\* action_disconnect_db with the cursor on a node of conn_id, and _disconnect
\* with its detach or close succeeding or raising.  A delete_connection that
\* raises ends _disconnect there, and action_disconnect_db swallows it.
DisconnectDb(conn_id) ==
    /\ \E k \in 1..Len(db_tree.nodes) : db_tree.nodes[k].conn_id = conn_id
    /\ db_connections' = Popped(db_connections, conn_id)
    /\ db_tree' = RemoveConnectionNode(db_tree, conn_id)
    /\ \E detach_ok \in BOOLEAN :
            /\ attached' = AttachedAfterDisconnect(attached, ConnMeta(conn_id), conn_id, detach_ok)
            /\ IF LoadRaises(disk)
               THEN UNCHANGED <<config_file, config, disk>>
               ELSE /\ config_file' = FileAfterDisconnect(Found(disk, config_file), conn_id, detach_ok)
                    /\ disk' = "ok"
                    /\ config' = LoadConfig(config_file')
    /\ UNCHANGED <<tabs, active, tasks, timers, connects>>

\* The tree after load_saved_connections has started its workers: every
\* descriptor, in the order of the list, ran add_connection_node.
RECURSIVE TreeOfSaved(_, _)
TreeOfSaved(tree, conns) ==
    IF conns = <<>> THEN tree
    ELSE TreeOfSaved(AddConnectionNode(tree, Head(conns), FALSE), Tail(conns))

\* The program is started on the document the last process left: __init__
\* and on_mount, with one connect_database worker per persisted descriptor,
\* each up to its await.  Nothing of the last process is left but the file.
\* A load_config that raises ends __init__: no program is started.
Startup ==
    LET cfg == LoadConfig(Found(disk, config_file))
        sql == IF cfg.history # <<>> THEN cfg.history[Len(cfg.history)].sql ELSE ""
    IN  /\ ~LoadRaises(disk)
        /\ config_file' = Found(disk, config_file)
        /\ disk' = "ok"
        /\ config' = cfg
        /\ tabs' = <<NewTab(sql, 0)>>
        /\ active' = 1
        /\ tasks' = <<>>
        /\ timers' = 0
        /\ db_connections' = <<>>
        /\ attached' = {}
        /\ connects' = [k \in 1..Len(cfg.connections) |-> NewConnect(cfg.connections[k], "startup")]
        /\ db_tree' = TreeOfSaved([nodes |-> <<>>, connections_data |-> <<>>], cfg.connections)

\* The points at which the process can stop in save_config: before the
\* open, after open(CONFIG_FILE, 'w') has truncated the file, while
\* json.dump is writing into it, after the file was closed.
SavePoints == {"before", "truncated", "writing", "after"}

\* What is at the path when save_config(new) stops at a point of a file
\* that held the document `file`.
DiskStoppedAt(point) ==
    IF point = "truncated" THEN "empty" ELSE IF point = "writing" THEN "partial" ELSE "ok"

FileStoppedAt(file, new, point) == IF point = "after" THEN new ELSE file

\* The process ends: nothing is left of it but the file.
ProcessGone ==
    /\ tabs' = <<>>
    /\ active' = 0
    /\ tasks' = <<>>
    /\ timers' = 0
    /\ db_connections' = <<>>
    /\ config' = DefaultConfig
    /\ db_tree' = [nodes |-> <<>>, connections_data |-> <<>>]
    /\ connects' = <<>>
    /\ attached' = {}

\* The process is stopped while the add_to_history of a run is in
\* save_config.
RunStoppedInSave(point) ==
    /\ ~RunReturnsEarly
    /\ ~LoadRaises(disk)
    /\ config_file' = FileStoppedAt(Found(disk, config_file),
                                    AddToHistory(Found(disk, config_file), Strip(tabs[active].sql)),
                                    point)
    /\ disk' = DiskStoppedAt(point)
    /\ ProcessGone

\* The process is stopped while the save_query of the SaveQueryDialog is in
\* save_config.
SaveQueryStopped(name, point) ==
    /\ active # 0
    /\ Strip(tabs[active].sql) # ""
    /\ Len(config_file.saved_queries) < MaxSaved
    /\ ~LoadRaises(disk)
    /\ config_file' = FileStoppedAt(Found(disk, config_file),
                                    SaveQuery(Found(disk, config_file), name, Strip(tabs[active].sql)),
                                    point)
    /\ disk' = DiskStoppedAt(point)
    /\ ProcessGone

\* Someone else removes openduck.json; config_file keeps the last complete
\* document, which nothing reads while there is no file.
DocumentRemoved ==
    /\ disk # "missing"
    /\ disk' = "missing"
    /\ UNCHANGED <<tabs, active, tasks, timers, db_connections, config_file, config,
                   db_tree, connects, attached>>

\* Someone else leaves openduck.json with a content that is no JSON document.
DocumentDamaged ==
    /\ disk = "ok"
    /\ disk' = "corrupt"
    /\ UNCHANGED <<tabs, active, tasks, timers, db_connections, config_file, config,
                   db_tree, connects, attached>>

\* on_tree_node_selected on a table leaf: a tab on the embedded engine for a
\* mysql handle, a tab bound to the descriptor for an mssql handle.
TableSelected(conn_id) ==
    /\ \E k \in 1..Len(db_tree.nodes) :
            /\ db_tree.nodes[k].kind = "connection"
            /\ db_tree.nodes[k].conn_id = conn_id
            /\ db_tree.nodes[k].tables
    /\ conn_id \in DOMAIN db_connections
    /\ AddNewTab("q1", TRUE, IF db_connections[conn_id] = "mssql" THEN conn_id ELSE 0)
    /\ UNCHANGED <<tasks, db_connections, config_file, config, db_tree, connects, attached, disk>>

\* --------------------------------------------------------- specifications
\* One query session: the "Main" tab, its editor, its runs with their worker
\* threads, the cancel button and the header sort.
Next ==
    \/ ActionRunQuery
    \/ \E a \in TaskIds, reply \in Replies : ThreadFinishes(a, reply)
    \/ \E a \in TaskIds : RunQueryResumes(a)
    \/ CancelPressed
    \/ \E k \in 1..Len(tabs[active].tbl.columns) : HeaderSelected(k)
    \/ \E sql \in {"", "q1"} : SqlEdited(sql)

Spec == Init /\ [][Next]_vars

\* The same steps under the scheduling of the event loop: a task whose await
\* can be left (the future of to_thread is done, or the task was cancelled)
\* is resumed by the loop.
SpecLive == Spec /\ \A a \in 1..MaxRuns : WF_vars(a \in TaskIds /\ RunQueryResumes(a))

\* The connection registry with the tabs opened from its table leaves: the
\* connects with their worker threads, disconnect, and the runs of the tabs.
NextRegistry ==
    \/ \E type \in ConnTypes : ConnectionAdded(type)
    \/ \E c \in ConnIds, type \in ConnTypes : ConnectionRetried(c, type)
    \/ \E k \in 1..Len(connects), outcome \in ConnectOutcomes, has_tables \in BOOLEAN :
            ConnectThreadFinishes(k, outcome, has_tables)
    \/ \E k \in 1..Len(connects) : ConnectResumes(k)
    \/ \E c \in ConnIds : DisconnectDb(c)
    \/ \E c \in ConnIds : TableSelected(c)
    \/ \E t \in TabIds : TabActivated(t)
    \/ TimerFires
    \/ ActionRunQuery
    \/ \E a \in TaskIds, reply \in Replies : ThreadFinishes(a, reply)
    \/ \E a \in TaskIds : RunQueryResumes(a)

SpecRegistry == Init /\ [][NextRegistry]_vars

\* The replies that differ in how a run ends but not in the rows it caches.
PlainReplies == {reply \in Replies : reply.kind # "rows"}

\* Several query sessions: the "Main" tab and the tabs opened from data
\* files, each run by its timer, with the editor and the cancel button of
\* the tab opened last; the runs of the tabs end in any order.
NextSessions ==
    \/ FileSelected
    \/ TimerFires
    \/ ActionRunQuery
    \/ \E a \in TaskIds, reply \in PlainReplies : ThreadFinishes(a, reply)
    \/ \E a \in TaskIds : RunQueryResumes(a)
    \/ CancelPressed
    \/ \E sql \in {" ", " q2 "} : SqlEdited(sql)

SpecSessions == Init /\ [][NextSessions]_vars

\* The ConfigStore under the editor of the "Main" tab: runs that append to
\* the history and saves of the editor's text under a name.
NextStore ==
    \/ \E sql \in SqlTexts : SqlEdited(sql)
    \/ \E name \in QueryNames : QuerySaved(name)
    \/ ActionRunQuery
    \/ \E a \in TaskIds, reply \in PlainReplies : ThreadFinishes(a, reply)
    \/ \E a \in TaskIds : RunQueryResumes(a)

SpecStore == Init /\ [][NextStore]_vars

\* The connection registry over several processes: descriptors are added,
\* retried and disconnected, and the program is started again on the
\* document it left.
NextStartup ==
    \/ \E type \in ConnTypes : ConnectionAdded(type)
    \/ \E c \in ConnIds, type \in ConnTypes : ConnectionRetried(c, type)
    \/ \E k \in 1..Len(connects), outcome \in ConnectOutcomes, has_tables \in BOOLEAN :
            ConnectThreadFinishes(k, outcome, has_tables)
    \/ \E k \in 1..Len(connects) : ConnectResumes(k)
    \/ \E c \in ConnIds : DisconnectDb(c)
    \/ Startup

SpecStartup == Init /\ [][NextStartup]_vars

\* Several query sessions whose runs overlap while the user moves from one
\* tab to another.
TabReplies == {reply \in Replies : reply.kind \in {"error", "rows"}}

NextTabs ==
    \/ FileSelected
    \/ \E t \in TabIds : TabActivated(t)
    \/ TimerFires
    \/ ActionRunQuery
    \/ \E a \in TaskIds, reply \in TabReplies : ThreadFinishes(a, reply)
    \/ \E a \in TaskIds : RunQueryResumes(a)
    \/ CancelPressed
    \/ SqlEdited("q1")

SpecTabs == Init /\ [][NextTabs]_vars

\* The history is unbounded in the program; the specifications that restart
\* the program stop adding to it at MaxHistory entries.
HistoryRoom == Len(config_file.history) < MaxHistory

\* The process stopping inside save_config, and the next start.
NextCrash ==
    \/ SqlEdited("q1")
    \/ HistoryRoom /\ ActionRunQuery
    \/ \E a \in TaskIds, reply \in PlainReplies : ThreadFinishes(a, reply)
    \/ \E a \in TaskIds : RunQueryResumes(a)
    \/ \E name \in QueryNames : QuerySaved(name)
    \/ HistoryRoom /\ \E point \in SavePoints : RunStoppedInSave(point)
    \/ \E name \in QueryNames, point \in SavePoints : SaveQueryStopped(name, point)
    \/ Startup

SpecCrash == Init /\ [][NextCrash]_vars

\* The backend call that raises.
ErrorReplies == {reply \in Replies : reply.kind = "error"}

\* load_config, at the start of the program and inside the runs and the
\* saved queries, on a file that someone else may remove.
NextDisk ==
    \/ FileSelected
    \/ HistoryRoom /\ TimerFires
    \/ HistoryRoom /\ ActionRunQuery
    \/ \E a \in TaskIds, reply \in ErrorReplies : ThreadFinishes(a, reply)
    \/ \E a \in TaskIds : RunQueryResumes(a)
    \/ QuerySaved("a")
    \/ DocumentRemoved
    \/ Startup

SpecDisk == Init /\ [][NextDisk]_vars

\* The ConfigStore operations of one process on a file that someone else
\* may damage or remove: the runs the timers start, the saved queries, the
\* descriptors added and disconnected.
NextDamage ==
    \/ FileSelected
    \/ TimerFires
    \/ \E a \in TaskIds, reply \in ErrorReplies : ThreadFinishes(a, reply)
    \/ \E a \in TaskIds : RunQueryResumes(a)
    \/ QuerySaved("a")
    \/ ConnectionAdded("mssql")
    \/ \E c \in ConnIds : DisconnectDb(c)
    \/ DocumentRemoved
    \/ DocumentDamaged

SpecDamage == Init /\ [][NextDamage]_vars

\* Every ConfigStore mutation of one process, with the backend calls of
\* several sessions and the connects in flight: the "Main" tab is run by
\* hand, the tabs of the data files by their timers, and the worker
\* threads of the connects are still running.
NextMutators ==
    \/ SqlEdited("q1")
    \/ FileSelected
    \/ TimerFires
    \/ active = 1 /\ ActionRunQuery
    \/ \E a \in TaskIds, reply \in ErrorReplies : ThreadFinishes(a, reply)
    \/ \E a \in TaskIds : RunQueryResumes(a)
    \/ QuerySaved("a")
    \/ ConnectionAdded("mssql")
    \/ \E c \in ConnIds : DisconnectDb(c)

SpecMutators == Init /\ [][NextMutators]_vars

\* The projection on its own: a tab whose cache holds up to MaxRows rows of
\* an integer column and a text column, both with NULLs, and whose column
\* states hold any filter texts and at most one sort; refresh_tab_table and
\* the header handler are applied to it.
RowPool ==
    { <<IntCell(2), StrCell(<<"a">>)>>,
      <<IntCell(1), StrCell(<<"A", "b">>)>>,
      <<IntCell(1), NullCell>>,
      <<NullCell, StrCell(<<"a">>)>> }

DataSets == UNION {[1..n -> RowPool] : n \in 0..MaxRows}

FilterTexts == {<<>>, <<"A">>, <<"1">>, <<"n">>}

StatesPool ==
    {cs \in [0..1 -> [filter : FilterTexts, sort : {None, "asc", "desc"}]] :
        cs[0].sort = None \/ cs[1].sort = None}

InitProjection ==
    /\ tabs \in {<<[NewTab("q1", 0) EXCEPT !.full_data = data,
                                           !.column_names = <<"id", "name">>,
                                           !.col_states = cs]>> :
                    data \in DataSets, cs \in StatesPool}
    /\ active = 1
    /\ tasks = <<>>
    /\ timers = 0
    /\ db_connections = <<>>
    /\ config_file = DefaultConfig
    /\ config = DefaultConfig
    /\ db_tree = [nodes |-> <<>>, connections_data |-> <<>>]
    /\ connects = <<>>
    /\ attached = {}
    /\ disk = "ok"

NextProjection ==
    \/ RefreshTabTable
    \/ \E k \in 1..Len(tabs[active].tbl.columns) : HeaderSelected(k)

SpecProjection == InitProjection /\ [][NextProjection]_vars

\* ----------------------------------------------------------------- claims
\* The cache of a tab: its rows and its column names.
Cache(t) == <<tabs[t].full_data, tabs[t].column_names>>

TasksOf(t) == {a \in TaskIds : tasks[a].tab = t}

\* A run whose handler is over and whose await ended with the thread's
\* return value: the runs that are entitled to write the cache.
Completed(a) == tasks[a].pc = "done" /\ ~tasks[a].must_cancel /\ tasks[a].thread = "returned"

\* A run that was cancelled and whose handler is over.
Cancelled(a) == tasks[a].pc = "done" /\ tasks[a].must_cancel

\* Task a takes its step from the await to the end of the handler.
Resumes(a) == a \in TaskIds /\ tasks[a].pc = "awaiting" /\ tasks'[a].pc = "done"

\* C1: when a run A of a tab was cancelled and a run B of the same tab is the
\* one run that completed with a result, the tab's cache is B's result, also
\* after A's backend call has come back with its own result.
C1_CancelledResultNeverApplied ==
    \A a, b \in TaskIds :
        ( /\ a # b
          /\ tasks[a].tab = tasks[b].tab
          /\ Cancelled(a)
          /\ Completed(b)
          /\ \A c \in TasksOf(tasks[b].tab) \ {b} : ~Completed(c) )
        => Cache(tasks[b].tab) = <<tasks[b].result.data, tasks[b].result.cols>>

\* C1 witness: A was cancelled before B was started, its backend call has
\* come back with a result other than B's, and the cache holds B's result.
C1_Witness ==
    \E a, b \in TaskIds :
        /\ a < b
        /\ tasks[a].tab = tasks[b].tab
        /\ Cancelled(a)
        /\ tasks[a].thread = "returned"
        /\ Completed(b)
        /\ tasks[a].result # tasks[b].result
        /\ Cache(tasks[b].tab) = <<tasks[b].result.data, tasks[b].result.cols>>

\* C2: when two runs of a tab both completed with a result, the cache holds
\* the result of the run that was started second, never that of the run
\* started first.
C2_SupersededResultDiscarded ==
    \A a, b \in TaskIds :
        ( /\ a < b
          /\ tasks[a].tab = tasks[b].tab
          /\ Completed(a)
          /\ Completed(b)
          /\ \A c \in TasksOf(tasks[b].tab) \ {a, b} : ~Completed(c) )
        => Cache(tasks[b].tab) = <<tasks[b].result.data, tasks[b].result.cols>>

\* C3: a tab never has two runs in flight (handlers at their await that
\* were not cancelled).
C3_AtMostOneInFlight ==
    \A t \in TabIds :
        Cardinality({a \in TasksOf(t) : tasks[a].pc = "awaiting" /\ ~tasks[a].must_cancel}) <= 1

\* C4: neither the cancel button nor the end of a cancelled run changes the
\* tab's full_data, column_names or col_states, and the cancelled run leaves
\* the tab idle (no task reference, no executing mark).
C4_CancelKeepsCache ==
    [][\A a \in TaskIds :
          LET t == tasks[a].tab
          IN  /\ (~tasks[a].must_cancel /\ tasks'[a].must_cancel)
                    => /\ Cache(t)' = Cache(t)
                       /\ tabs'[t].col_states = tabs[t].col_states
              /\ (Resumes(a) /\ tasks[a].must_cancel)
                    => /\ Cache(t)' = Cache(t)
                       /\ tabs'[t].col_states = tabs[t].col_states
                       /\ tabs'[t].running_task = 0
                       /\ ~tabs'[t].loading]_vars

\* C4 witness: a run was cancelled on a tab that holds the sorted result of
\* an earlier run, and the tab is idle.
C4_Witness ==
    \E a, b \in TaskIds :
        /\ b < a
        /\ tasks[a].tab = tasks[b].tab
        /\ Cancelled(a)
        /\ Completed(b)
        /\ tabs[tasks[a].tab].full_data # <<>>
        /\ Cache(tasks[a].tab) = <<tasks[b].result.data, tasks[b].result.cols>>
        /\ \E i \in DOMAIN tabs[tasks[a].tab].col_states :
                tabs[tasks[a].tab].col_states[i].sort # None
        /\ tabs[tasks[a].tab].running_task = 0

\* C5: the end of a run whose backend call raised replaces the cache: a tab
\* that held a result does not hold the same rows and names afterwards.
C5_FailedRunReplacesCache ==
    [][\A a \in TaskIds :
          (Resumes(a) /\ tasks'[a].outcome = "error" /\ tabs[tasks[a].tab].column_names # <<>>)
              => Cache(tasks[a].tab)' # Cache(tasks[a].tab)]_vars

\* The tab of run a is bound to a descriptor id, and the handler found no
\* handle for it in db_connections.
DeadHandle(a) == tabs[tasks[a].tab].connection_id # 0 /\ tasks[a].conn_meta = None

\* C6: the SQL of a tab bound to a descriptor without a handle is executed on
\* no backend, in particular not on the embedded engine.
C6_DeadHandleRunsNowhere ==
    \A a \in TaskIds : DeadHandle(a) => tasks[a].backend \notin {"duckdb", "mssql"}

\* C7: a run on a tab bound to a descriptor without a handle changes neither
\* the history nor the tab (cache, column states, task reference).
C7_RoutingErrorChangesNothing ==
    [][\A a \in 1..Len(tasks') :
          (a \notin TaskIds /\ DeadHandle(a)')
              => /\ config_file'.history = config_file.history
                 /\ tabs' = tabs]_vars

\* C8: the keys of a tab's col_states are exactly 0 .. len(column_names)-1.
C8_OneStatePerColumn ==
    \A t \in TabIds :
        DOMAIN tabs[t].col_states = 0..(Len(tabs[t].column_names) - 1)

\* C8 witness: after a run with a result, a header sort and a run that
\* failed or was cancelled, a tab has two columns and two column states.
C8_Witness ==
    \E a, b \in TaskIds :
        /\ tasks[a].tab = tasks[b].tab
        /\ Completed(a)
        /\ tasks[b].outcome \in {"error", "cancelled"}
        /\ Len(tabs[tasks[a].tab].column_names) = 2
        /\ DOMAIN tabs[tasks[a].tab].col_states = {0, 1}
        /\ tabs[tasks[a].tab].col_states[1].sort # None

\* C9: the step in which a run writes its result leaves every column of the
\* new result with the filter "" and no sort.
C9_SuccessResetsStates ==
    [][\A a \in TaskIds :
          (Resumes(a) /\ tasks'[a].outcome = "success")
              => LET tab == tabs'[tasks[a].tab]
                 IN  /\ tab.column_names = tasks[a].result.cols
                     /\ \A i \in 0..(Len(tab.column_names) - 1) :
                            tab.col_states[i] = [filter |-> <<>>, sort |-> None]]_vars

\* C9 witness: a run wrote its result over a cache with another number of
\* columns, one of them sorted, and no sort is left.
C9_Witness ==
    \E a \in TaskIds :
        /\ tasks[a].outcome = "success"
        /\ \E i \in DOMAIN tasks[a].replaced : tasks[a].replaced[i].sort # None
        /\ DOMAIN tasks[a].replaced # DOMAIN tabs[tasks[a].tab].col_states
        /\ Cache(tasks[a].tab) = <<tasks[a].result.data, tasks[a].result.cols>>
        /\ \A i \in DOMAIN tabs[tasks[a].tab].col_states :
                tabs[tasks[a].tab].col_states[i].sort = None

\* C10: at most one column of a tab has a sort, and a header selection gives
\* its column the next sort and leaves no sort on any other column.
AtMostOneSort(t) ==
    Cardinality({i \in DOMAIN tabs[t].col_states : tabs[t].col_states[i].sort # None}) <= 1

HeaderStep(t) ==
    /\ UNCHANGED tasks
    /\ tabs'[t].col_states # tabs[t].col_states

C10_SingleSort ==
    /\ [](\A t \in TabIds : AtMostOneSort(t))
    /\ [][\A t \in TabIds :
            HeaderStep(t)
                => \E idx \in DOMAIN tabs[t].col_states :
                      /\ tabs'[t].col_states[idx].sort = NextSort(tabs[t].col_states[idx].sort)
                      /\ \A j \in DOMAIN tabs'[t].col_states \ {idx} :
                            tabs'[t].col_states[j].sort = None]_vars

\* C10 witness: header selections have left the first of two columns sorted
\* descending and the second one without a sort, and the table shows the
\* rows in that order.
C10_Witness ==
    \E t \in TabIds :
        /\ DOMAIN tabs[t].col_states = {0, 1}
        /\ tabs[t].col_states[0].sort = "desc"
        /\ tabs[t].col_states[1].sort = None
        /\ tabs[t].tbl.rows = << <<NatChars(2), NatChars(30)>>, <<NatChars(1), NatChars(95)>> >>

\* The history and the saved queries of the document.
History == config_file.history
SavedQueries == config_file.saved_queries

\* C11: the history has one entry per run that was started, in the order of
\* the starts, whatever became of the run; and a step only ever adds one
\* entry at the end of the history, leaving the entries before it as they are.
C11_HistoryRecordsAttempts ==
    /\ [](/\ Len(History) = Len(tasks)
          /\ \A a \in TaskIds : History[a].sql = tasks[a].sql
          /\ \A a, b \in TaskIds : a < b => History[a].timestamp < History[b].timestamp)
    /\ [][/\ Len(History') \in {Len(History), Len(History) + 1}
          /\ SubSeq(History', 1, Len(History)) = History]_vars

\* C11 witness: two runs of different tabs with different texts, the first
\* cancelled and the second failed, and the history holds the two texts in
\* the order of the starts.
C11_Witness ==
    /\ Len(tasks) = 2
    /\ tasks[1].tab # tasks[2].tab
    /\ tasks[1].outcome = "cancelled"
    /\ tasks[2].outcome = "error"
    /\ tasks[1].sql = "q2"
    /\ tasks[2].sql = "q1"
    /\ Len(History) = 2
    /\ History[1].sql = "q2"
    /\ History[2].sql = "q1"

\* C12: no run is ever started with a text that is empty after stripping
\* (no task, no history entry), and a scheduled run that finds such a text in
\* the active tab changes neither the document nor any tab nor the tasks.
C12_EmptyRunIsNoOp ==
    /\ [](/\ \A a \in TaskIds : tasks[a].sql # ""
          /\ \A k \in 1..Len(History) : History[k].sql # "")
    /\ [][(timers' = timers - 1 /\ Strip(tabs[active].sql) = "")
            => /\ config_file' = config_file
               /\ tasks' = tasks
               /\ tabs' = tabs]_vars

\* C12 witness: the timer of the second tab has fired, the active tab holds
\* a text of blanks, and there is neither a task nor a history entry.
C12_Witness ==
    /\ Len(tabs) = 2
    /\ timers = 0
    /\ tabs[active].sql = " "
    /\ tabs[active].running_task = 0
    /\ tasks = <<>>
    /\ History = <<>>

\* C13: no two saved queries have the same name, and a step that changes
\* the saved queries leaves one entry of the name it saved, with the stripped
\* text of the editor, the entries of the other names as they were, and the
\* number of entries as it was when the name was there already.
C13_SavedNamesUnique ==
    /\ [](\A i, j \in 1..Len(SavedQueries) :
            SavedQueries[i].name = SavedQueries[j].name => i = j)
    /\ [][SavedQueries' # SavedQueries
            => \E name \in QueryNames :
                  LET before == {k \in 1..Len(SavedQueries) : SavedQueries[k].name = name}
                      after == {k \in 1..Len(SavedQueries') : SavedQueries'[k].name = name}
                  IN  /\ Cardinality(after) = 1
                      /\ \A k \in after : SavedQueries'[k].sql = Strip(tabs[active].sql)
                      /\ before # {} => Len(SavedQueries') = Len(SavedQueries)
                      /\ \A k \in 1..Len(SavedQueries) \ before :
                            SavedQueries'[k] = SavedQueries[k]]_vars

\* C13 witness: the first of two saved queries was written after the second
\* one, so it was saved again under its name, with another text.
C13_Witness ==
    /\ Len(SavedQueries) = 2
    /\ SavedQueries[1].name # SavedQueries[2].name
    /\ SavedQueries[1].timestamp > SavedQueries[2].timestamp
    /\ SavedQueries[1].sql = "q2"
    /\ SavedQueries[2].sql = "q1"

\* The descriptors of the document, and whether one of them has id c.
Connections == config_file.connections
Persisted(c) == \E k \in 1..Len(Connections) : Connections[k].id = c

\* The tree has an error node for id c.
ErrorNode(tree, c) ==
    \E k \in 1..Len(tree.nodes) : tree.nodes[k].kind = "error" /\ tree.nodes[k].conn_id = c

\* Worker k takes its step from the await to the end of connect_database.
ConnectEnds(k) ==
    /\ k \in 1..Len(connects)
    /\ k \in 1..Len(connects')
    /\ connects[k].pc = "awaiting"
    /\ connects'[k].pc = "done"

\* C14: no two descriptors of the document have the same id, and a retry,
\* which saves a descriptor under an id the document has, leaves the list
\* with the same length, the new descriptor at the place of the old one and
\* every other descriptor as it was.
C14_ConnectionIdsUnique ==
    /\ [](\A i, j \in 1..Len(Connections) : Connections[i].id = Connections[j].id => i = j)
    /\ [][(/\ Len(connects') = Len(connects) + 1
           /\ connects'[Len(connects')].origin = "retry")
            => LET conn_info == connects'[Len(connects')].conn_info
               IN  /\ Len(Connections') = Len(Connections)
                   /\ \A k \in 1..Len(Connections) :
                          Connections'[k] = IF Connections[k].id = conn_info.id
                                            THEN conn_info ELSE Connections[k]]_vars

\* C14 witness: a descriptor was saved by the dialog and saved again by a
\* retry with another type, and the document holds the one of the retry only.
C14_Witness ==
    \E k, m \in 1..Len(connects) :
        /\ connects[k].origin = "dialog"
        /\ connects[m].origin = "retry"
        /\ connects[k].conn_info.id = connects[m].conn_info.id
        /\ connects[k].conn_info.type # connects[m].conn_info.type
        /\ Connections = <<connects[m].conn_info>>

\* C15: a disconnect leaves the document without a descriptor of the id and
\* the handle map without a handle for it, and a start of the program starts
\* connect workers for the descriptors of the document and for no other id.
C15_DisconnectedNotRecovered ==
    [][/\ \A c \in ConnIds :
              DisconnectDb(c) => (~Persisted(c)' /\ c \notin DOMAIN db_connections')
       /\ Startup => \A k \in 1..Len(connects') : Persisted(connects'[k].conn_info.id)]_vars

\* C15 witness: the program was started on a document that holds the second
\* descriptor only, the first one having been saved and disconnected, and it
\* has a worker for the second one and none, and no handle, for the first.
C15_Witness ==
    /\ Len(connects) = 1
    /\ connects[1].origin = "startup"
    /\ connects[1].conn_info.id = 2
    /\ Len(Connections) = 1
    /\ ~Persisted(1)
    /\ 1 \notin DOMAIN db_connections

\* C16: a disconnect of an id without handle and without descriptor leaves
\* the handle map and the document as they are, and every disconnect, also
\* one whose detach or close raises, leaves neither handle nor descriptor.
C16_DisconnectIdempotent ==
    [][\A c \in ConnIds :
          DisconnectDb(c)
              => /\ c \notin DOMAIN db_connections'
                 /\ ~Persisted(c)'
                 /\ (c \notin DOMAIN db_connections /\ ~Persisted(c))
                        => (db_connections' = db_connections /\ config_file' = config_file)]_vars

\* C16 witness: every connect of an id returned and set its handle, and the
\* id has neither handle nor descriptor while its alias is still attached:
\* the detach of its disconnect raised, and the disconnect went on.
C16_Witness ==
    \E c \in ConnIds :
        /\ c \in attached
        /\ c \notin DOMAIN db_connections
        /\ ~Persisted(c)
        /\ \E k \in 1..Len(connects) : connects[k].conn_info.id = c
        /\ \A k \in 1..Len(connects) :
                connects[k].conn_info.id = c
                    => connects[k].pc = "done" /\ connects[k].thread = "returned"

\* C17: the end of a connect of a mysql descriptor that raised leaves the
\* alias of the descriptor not attached and the id without a handle.
C17_FailedAttachLeavesNothing ==
    [][\A k \in 1..Len(connects) :
          (ConnectEnds(k) /\ connects[k].thread = "raised" /\ connects[k].conn_info.type = "mysql")
              => /\ connects[k].conn_info.id \notin attached'
                 /\ connects[k].conn_info.id \notin DOMAIN db_connections']_vars

\* C18: neither the worker thread of a connect that raises nor the end of
\* that connect changes the document or the copy the program holds; the
\* descriptor, when the document has it, can be retried from the error node.
C18_FailedConnectKeepsDescriptor ==
    [][\A k \in 1..Len(connects) :
          /\ (k \in 1..Len(connects') /\ connects[k].thread = "running"
                    /\ connects'[k].thread = "raised")
                => config_file' = config_file
          /\ (ConnectEnds(k) /\ connects[k].thread = "raised")
                => /\ config_file' = config_file
                   /\ config' = config
                   /\ ErrorNode(db_tree', connects[k].conn_info.id)]_vars

\* C18 witness: a connect raised and ended, the document still holds its
\* descriptor, and the tree has the error node to retry it from.
C18_Witness ==
    \E k \in 1..Len(connects), m \in 1..Len(Connections) :
        /\ connects[k].pc = "done"
        /\ connects[k].thread = "raised"
        /\ Connections[m] = connects[k].conn_info
        /\ config.connections = Connections
        /\ ErrorNode(db_tree, connects[k].conn_info.id)

\* Every worker was started by load_saved_connections.
AllStartup == \A k \in 1..Len(connects) : connects[k].origin = "startup"

\* C19: a start of the program starts one worker for every descriptor of
\* the document; and while the workers are those of the start, a worker that
\* ended for a descriptor still in the document has left a handle of the
\* descriptor's type when it returned, and no handle and an error node when
\* it raised, whatever the other workers did.
C19_StartupPartialFailure ==
    /\ [](AllStartup
            => \A k \in 1..Len(connects) :
                  LET c == connects[k].conn_info.id
                  IN  (connects[k].pc = "done" /\ Persisted(c))
                          => IF connects[k].thread = "returned"
                             THEN c \in DOMAIN db_connections
                                    /\ db_connections[c] = connects[k].conn_info.type
                             ELSE c \notin DOMAIN db_connections /\ ErrorNode(db_tree, c))
    /\ [][Startup => /\ Len(connects') = Len(Connections)
                     /\ \A k \in 1..Len(Connections) :
                            /\ connects'[k].conn_info = Connections[k]
                            /\ connects'[k].pc = "awaiting"]_vars

\* C19 witness: of the two workers of a start the first raised and the
\* second returned; the first id has an error node and no handle, the second
\* one has its handle, and both descriptors are in the document.
C19_Witness ==
    /\ Len(connects) = 2
    /\ AllStartup
    /\ connects[1].pc = "done"
    /\ connects[1].thread = "raised"
    /\ connects[2].pc = "done"
    /\ connects[2].thread = "returned"
    /\ Len(Connections) = 2
    /\ connects[1].conn_info.id \notin DOMAIN db_connections
    /\ ErrorNode(db_tree, connects[1].conn_info.id)
    /\ connects[2].conn_info.id \in DOMAIN db_connections

\* C20: the step in which a run writes the result of a statement without a
\* result set (the result under the column "Info", a name no backend column
\* of the model has) leaves one column name and one row in the cache.
C20_NoResultGivesOneRow ==
    [][\A a \in TaskIds :
          (Resumes(a) /\ tasks'[a].outcome = "success" /\ tasks[a].result.cols = <<"Info">>)
              => /\ Len(tabs'[tasks[a].tab].column_names) = 1
                 /\ Len(tabs'[tasks[a].tab].full_data) = 1]_vars

\* C21: every run whose backend call has returned or raised, or that was
\* cancelled, leaves the await and ends; the step that ends it clears the
\* running_task of its session and removes the executing mark, whatever the
\* outcome.
C21_RunLeavesRunning ==
    /\ [][\A a \in TaskIds :
            Resumes(a) => /\ tabs'[tasks[a].tab].running_task = 0
                          /\ ~tabs'[tasks[a].tab].loading]_vars
    /\ \A a \in 1..MaxRuns :
            (a \in TaskIds /\ tasks[a].pc = "awaiting"
                /\ (tasks[a].thread # "running" \/ tasks[a].must_cancel))
            ~> (a \in TaskIds /\ tasks[a].pc = "done")

\* One run has ended with an error and one by cancellation, and the session
\* is idle again.
C21_Witness ==
    /\ \E a, b \in TaskIds : tasks[a].outcome = "error" /\ tasks[b].outcome = "cancelled"
    /\ \A a \in TaskIds : tasks[a].pc = "done"
    /\ tabs[1].running_task = 0
    /\ ~tabs[1].loading

\* The rows of a table that shows `rows`.
Shown(rows) == [m \in 1..Len(rows) |-> [k \in 1..Len(rows[m]) |-> DisplayCell(rows[m][k])]]

\* Whether every column with a filter text holds it, whatever the case of the
\* letters, in the stringified cell of the row.
Passes(row, col_states) ==
    \A i \in DOMAIN col_states :
        col_states[i].filter # <<>>
            => Contains(Lower(StrOfCell(row[i + 1])), Lower(col_states[i].filter))

Kept(full_data, col_states) == SelectSeq(full_data, LAMBDA r : Passes(r, col_states))

\* Whether `out` holds the elements of `in`, each as often, in some order.
IsArrangement(out, in) ==
    /\ Len(out) = Len(in)
    /\ \E p \in [1..Len(in) -> 1..Len(in)] :
            /\ \A k, l \in 1..Len(in) : k # l => p[k] # p[l]
            /\ \A k \in 1..Len(in) : out[k] = in[p[k]]

\* C22: the projection has no side effect and is deterministic: no step of
\* refresh_tab_table or of the header handler changes full_data or
\* column_names, refresh_tab_table leaves col_states alone, and projecting
\* once more with the same cache and column states gives the same table.
C22_ProjectionPure ==
    [][/\ \A t \in TabIds : Cache(t)' = Cache(t)
       /\ RefreshTabTable =>
            /\ tabs'[active].col_states = tabs[active].col_states
            /\ TabAfterRefresh(tabs'[active]) = tabs'[active]]_vars

\* A table that shows fewer rows than the cache holds, in another order than
\* the cache holds them, under a filter and a sort.
C22_Witness ==
    /\ SortColumn(tabs[1].col_states) # -1
    /\ ~SortRaises(FilterRows(tabs[1].full_data, tabs[1].col_states), SortColumn(tabs[1].col_states))
    /\ tabs[1].tbl = RefreshTable(tabs[1].full_data, tabs[1].column_names, tabs[1].col_states)
    /\ \E i \in DOMAIN tabs[1].col_states : tabs[1].col_states[i].filter # <<>>
    /\ Len(tabs[1].tbl.rows) = 2
    /\ Len(tabs[1].full_data) = 3
    /\ tabs[1].tbl.rows # Shown(Kept(tabs[1].full_data, tabs[1].col_states))

\* C23: a table that was rewritten has every column of the cache, and its
\* rows are the cached rows that hold every filter text in the stringified
\* cell of its column, whatever the case: in cache order when no sort is
\* set, in some order when one is.
C23_FilterSemantics ==
    [][\A t \in TabIds :
        tabs'[t].tbl # tabs[t].tbl =>
            LET tab == tabs'[t]
                kept == Shown(Kept(tab.full_data, tab.col_states))
            IN  /\ Len(tab.tbl.columns) = Len(tab.column_names)
                /\ IF SortColumn(tab.col_states) = -1
                   THEN tab.tbl.rows = kept
                   ELSE IsArrangement(tab.tbl.rows, kept)]_vars

\* Two filters at once, in letters of another case than the cell's, keep some
\* rows of the cache and drop others; both columns are still there.
C23_Witness ==
    /\ tabs[1].col_states[0].filter = <<"1">>
    /\ tabs[1].col_states[1].filter = <<"A">>
    /\ SortColumn(tabs[1].col_states) = -1
    /\ tabs[1].tbl = RefreshTable(tabs[1].full_data, tabs[1].column_names, tabs[1].col_states)
    /\ Len(tabs[1].full_data) = 3
    /\ Len(tabs[1].tbl.rows) = 1
    /\ Len(tabs[1].tbl.columns) = 2
    /\ \E m \in 1..3 : tabs[1].full_data[m] = <<IntCell(1), NullCell>>

\* The order of two cells of one column with NULL as the lowest key (as low
\* as the empty string in a text column).
CellLess(a, b) ==
    IF IsNull(b) THEN FALSE
    ELSE IF IsNull(a) THEN ~(IsStr(b) /\ b.str = <<>>)
    ELSE IF IsInt(a) THEN a.int < b.int
    ELSE StrLess(a.str, b.str)

\* Whether `out` is `in` stably sorted by column i in the given direction.
IsStableOrder(out, in, i, desc) ==
    /\ Len(out) = Len(in)
    /\ \E p \in [1..Len(in) -> 1..Len(in)] :
            /\ \A k, l \in 1..Len(in) : k # l => p[k] # p[l]
            /\ \A k \in 1..Len(in) : out[k] = in[p[k]]
            /\ \A k, l \in 1..Len(in) :
                    k < l =>
                        LET x == in[p[k]][i + 1]
                            y == in[p[l]][i + 1]
                        IN  /\ IF desc THEN ~CellLess(x, y) ELSE ~CellLess(y, x)
                            /\ (~CellLess(x, y) /\ ~CellLess(y, x)) => p[k] < p[l]

\* C24: after every step that changes a tab, its table shows the filtered
\* rows stably sorted by the column whose sort is set, in its direction and
\* with NULL as the lowest key whatever the type of the column, or in cache
\* order when no sort is set.
C24_SortSemantics ==
    [][\A t \in TabIds :
        tabs'[t] # tabs[t] =>
            LET tab == tabs'[t]
                kept == Kept(tab.full_data, tab.col_states)
                i == SortColumn(tab.col_states)
            IN  IF i = -1
                THEN tab.tbl.rows = Shown(kept)
                ELSE \E p \in [1..Len(kept) -> 1..Len(kept)] :
                        LET out == [k \in 1..Len(kept) |-> kept[p[k]]]
                        IN  /\ IsStableOrder(out, kept, i, tab.col_states[i].sort = "desc")
                            /\ tab.tbl.rows = Shown(out)]_vars

\* What the worker thread of a run executes its statement on: a cursor made
\* for the call by self.con.cursor(), or the connection of the mssql handle.
QueryContext(task) == IF task.backend = "mssql" THEN "handle" ELSE "cursor"

\* What the worker thread of a connect executes on: do_attach calls
\* self.con.execute four times, do_connect opens a connection of its own.
ConnectContext(worker) == IF worker.conn_info.type = "mysql" THEN "self.con" ELSE "own"

\* The worker threads that are executing directly on self.con.
OnSharedConnection ==
    {<<"run", a>> : a \in {b \in TaskIds :
        tasks[b].thread = "running" /\ QueryContext(tasks[b]) = "self.con"}}
    \cup {<<"connect", k>> : k \in {m \in 1..Len(connects) :
        connects[m].thread = "running" /\ ConnectContext(connects[m]) = "self.con"}}

\* C25: no two worker threads that run at the same time execute their
\* statements directly on the shared connection self.con.
C25_PrivateContextPerCall == Cardinality(OnSharedConnection) <= 1

\* C26: whenever the process stops in a config mutation, the file holds a
\* complete document (the previous one or the new one): it is never empty
\* and never partly written.
C26_SaveIsAtomic == disk \notin {"empty", "partial"}

\* C27: load_config does not fail on a missing file; it returns the default
\* document with three empty lists and writes it; on an existing document
\* it returns the lists as they are and leaves the file as it is.
C27_MissingFileIsDefault ==
    /\ [](disk = "missing" => ENABLED Startup)
    /\ [][/\ (Startup /\ disk = "missing") =>
               /\ config' = DefaultConfig
               /\ config_file' = DefaultConfig
               /\ disk' = "ok"
          /\ (Startup /\ disk = "ok") =>
               /\ config' = config_file
               /\ config_file' = config_file
               /\ disk' = "ok"
          /\ (disk = "missing" /\ Len(tasks') > Len(tasks)) =>
               /\ disk' = "ok"
               /\ Len(config_file'.history) = 1
               /\ config_file'.saved_queries = <<>>
               /\ config_file'.connections = <<>>]_vars

\* The second run of a process found no file: the history on disk holds
\* that run only (the clock of its timestamp has seen the first run), and
\* self.config is that document.
C27_Witness ==
    /\ disk = "ok"
    /\ Len(tasks) = 2
    /\ Len(config_file.history) = 1
    /\ config_file.history[1].timestamp = 1
    /\ config_file.saved_queries = <<>>
    /\ config = config_file

\* Whether the file holds something that is no complete document.
Damaged == disk \in {"empty", "partial", "corrupt"}

\* C28: while the file is damaged, no step of the program changes it (only
\* its removal by someone else does), none gets a document into
\* self.config, none starts a backend call and none sets a running_task.
C28_CorruptDocumentFails ==
    [][Damaged =>
        /\ (disk' = disk /\ config_file' = config_file) \/ disk' = "missing"
        /\ config' = config
        /\ Len(tasks') = Len(tasks)
        /\ \A t \in TabIds :
                \/ tabs'[t].running_task = tabs[t].running_task
                \/ tabs'[t].running_task = 0]_vars

\* The timer of a file tab has fired on a damaged file: the tab holds its
\* SQL, no timer is pending, and no run was started.
C28_Witness ==
    /\ disk = "corrupt"
    /\ Len(tabs) = 2
    /\ active = 2
    /\ Strip(tabs[2].sql) # ""
    /\ timers = 0
    /\ tasks = <<>>
    /\ config_file.history = <<>>

\* What the claims call the state of session t.
Session(t) ==
    <<tabs[t].full_data, tabs[t].column_names, tabs[t].col_states, tabs[t].running_task>>

\* C29: a step of a run (its start, the end of its backend call, its
\* cancellation, its resumption with any outcome) leaves the full_data,
\* column_names, col_states and running_task of every other session as they
\* are, whichever tab is active.
C29_SessionsIndependent ==
    [][/\ \A a \in TaskIds :
            tasks'[a] # tasks[a] =>
                \A t \in TabIds \ {tasks[a].tab} : Session(t)' = Session(t)
       /\ Len(tasks') > Len(tasks) =>
                \A t \in TabIds \ {tasks'[Len(tasks')].tab} : Session(t)' = Session(t)]_vars

\* A run of the first session was started and has ended with a result while
\* a call of the second session, started before it, is still in flight; the
\* second session is the active one and holds its own token and no rows.
C29_Witness ==
    \E a, b \in TaskIds :
        /\ b < a
        /\ tasks[a].tab = 1
        /\ tasks[b].tab = 2
        /\ tasks[a].outcome = "success"
        /\ tabs[1].full_data # <<>>
        /\ tabs[1].running_task = 0
        /\ tasks[b].pc = "awaiting"
        /\ tasks[b].thread = "running"
        /\ tabs[2].running_task = b
        /\ tabs[2].full_data = <<>>
        /\ active = 2

\* A backend call that is in flight and was not cancelled.
InFlight(a) == tasks[a].pc = "awaiting" /\ tasks[a].thread = "running" /\ ~tasks[a].must_cancel

\* C30: a session with a backend call in flight that was not cancelled has
\* its running_task set; the end of another run does not clear it.
C30_TokenWhileInFlight ==
    \A t \in TabIds :
        (\E a \in TasksOf(t) : InFlight(a)) => tabs[t].running_task # 0

\* C31: every id that has a handle in db_connections has a descriptor in
\* the connections list of the document, whatever the order of the steps
\* of connects and disconnects.
C31_HandleHasDescriptor == \A c \in DOMAIN db_connections : Persisted(c)

\* The tab whose add_new_tab(run=True) set the oldest pending timer, in a
\* process whose tabs after "Main" were all opened with run=True: the timers
\* have the same delay, so they fire in the order of the tabs.
TimerTab == Len(tabs) - timers + 1

\* C32: the run a timer of add_new_tab(run=True) starts is a run of the tab
\* that was opened with it: of its SQL, on its connection, whatever tab is
\* active when the timer fires.
C32_ScheduledRunOnItsTab ==
    [][(timers' = timers - 1 /\ Len(tasks') = Len(tasks) + 1) =>
            LET task == tasks'[Len(tasks')]
            IN  /\ task.tab = TimerTab
                /\ task.sql = Strip(tabs[TimerTab].sql)
                /\ task.conn_meta = ConnMeta(tabs[TimerTab].connection_id)]_vars

\* Whether the list `longer` starts with the list `shorter`.
StartsWith(longer, shorter) ==
    Len(shorter) <= Len(longer) /\ SubSeq(longer, 1, Len(shorter)) = shorter

SavedNames(list) == {list[k].name : k \in 1..Len(list)}

\* C33: no update of the document is lost: the history holds the SQL of
\* every run started, in their order; a step only ever extends the history,
\* never loses a saved name, and loses a descriptor only by the disconnect
\* of its id; a descriptor that was added is in the document; and the copy
\* the process holds is the document.
C33_NoLostUpdate ==
    /\ [](/\ Len(History) = Len(tasks)
          /\ \A k \in 1..Len(tasks) : History[k].sql = tasks[k].sql
          /\ config = config_file)
    /\ [][/\ StartsWith(History', History)
          /\ SavedNames(SavedQueries) \subseteq SavedNames(SavedQueries')
          /\ \A name \in QueryNames : QuerySaved(name) => name \in SavedNames(SavedQueries')
          /\ \A c \in ConnIds : (Persisted(c) /\ ~Persisted(c)') => DisconnectDb(c)
          /\ \A type \in ConnTypes :
                ConnectionAdded(type) => \E c \in ConnIds : c = FreshConnId /\ Persisted(c)']_vars

\* Two runs, a saved query and two descriptors were written, the second run
\* and the second descriptor while the backend call of the first run and
\* the connect of the first descriptor were in flight, as they still are.
C33_Witness ==
    /\ Len(History) = 2
    /\ tasks[1].pc = "awaiting" /\ tasks[1].thread = "running"
    /\ tasks[1].tab # tasks[2].tab
    /\ SavedQueries # <<>>
    /\ Len(Connections) = 2
    /\ connects[1].pc = "awaiting" /\ connects[1].thread = "running"

\* C34: a mutator changes its own list only: the history append of a run
\* leaves saved_queries and connections as they are, save_query leaves
\* history and connections, save_connection and delete_connection leave
\* history and saved_queries; delete_connection removes the descriptors of
\* its id and keeps the others in their order.
C34_MutatorsKeepOtherLists ==
    /\ [](/\ \A sql \in SqlTexts :
                LET new == AddToHistory(config_file, sql)
                IN  new.saved_queries = SavedQueries /\ new.connections = Connections
          /\ \A name \in QueryNames, sql \in SqlTexts :
                LET new == SaveQuery(config_file, name, sql)
                IN  new.history = History /\ new.connections = Connections
          /\ \A c \in ConnIds, type \in ConnTypes :
                LET new == SaveConnection(config_file, [id |-> c, type |-> type])
                IN  new.history = History /\ new.saved_queries = SavedQueries)
    /\ [][/\ Len(tasks') > Len(tasks) =>
                SavedQueries' = SavedQueries /\ Connections' = Connections
          /\ \A name \in QueryNames :
                QuerySaved(name) => History' = History /\ Connections' = Connections
          /\ \A type \in ConnTypes :
                ConnectionAdded(type) => History' = History /\ SavedQueries' = SavedQueries
          /\ \A c \in ConnIds :
                DisconnectDb(c) =>
                    /\ History' = History
                    /\ SavedQueries' = SavedQueries
                    /\ Connections' = SelectSeq(Connections, LAMBDA d : d.id # c)]_vars

\* The first of two descriptors was deleted and the second is still there;
\* the history and the saved queries written before hold their entries.
C34_Witness ==
    /\ Len(connects) = 2
    /\ Len(Connections) = 1
    /\ Connections[1].id = connects[2].conn_info.id
    /\ History # <<>>
    /\ SavedQueries # <<>>

====
